---- MODULE Spec2Model ----
(***************************************************************************)
(* A model of geometry2d.py: the planar geometry kernel (dot, cross, ccw,  *)
(* projection, dist_lp, dist_sp, intersection_ll, does_intersect_ss,       *)
(* contains, area, convex_hull, convex_cut).                               *)
(*                                                                         *)
(* Points are Python complex numbers whose parts are small integers held   *)
(* in binary64 floats; sums, differences and products of such values are   *)
(* exact, so dot and cross are modelled on the integers.  The operations   *)
(* that round (abs, **, /, and arithmetic on their results) are modelled   *)
(* by a binary64 soft-float on arbitrary-precision naturals.               *)
(***************************************************************************)
EXTENDS Integers, Sequences, FiniteSets, TLC

\* ------------------------------------------------------------------ bounds
\* Coordinates of polygon vertices, hull inputs and their query points and
\* lines range over 0..MaxCoord.
MaxCoord == 2
\* Coordinates of the points given to ccw and does_intersect_ss range over
\* 0..MaxSegCoord (four collinear points need four values).
MaxSegCoord == 3
\* Longest input list given to convex_hull.
MaxHullN == 4
\* Most vertices of a polygon given to contains.
MaxPolyN == 4
MaxPolyCoord == 3
\* Most vertices of a polygon given to convex_cut.
MaxCutN == 4

\* ------------------------------------------------------- points and vectors
\* A complex number with integer parts: <<real, imag>>.
Points == (0..MaxCoord) \X (0..MaxCoord)
PolyPoints == (0..MaxPolyCoord) \X (0..MaxPolyCoord)
SegPoints == (0..MaxSegCoord) \X (0..MaxSegCoord)

VSub(a, b) == <<a[1] - b[1], a[2] - b[2]>>

\* dot(a, b) = (a.conjugate() * b).real
dot(a, b) == a[1] * b[1] + a[2] * b[2]

\* cross(a, b) = (a.conjugate() * b).imag
cross(a, b) == a[1] * b[2] - a[2] * b[1]

\* |v|^2 of an integer vector (exact).
Norm2(v) == v[1] * v[1] + v[2] * v[2]

\* --------------------------------------------- arbitrary-precision naturals
\* A natural is a sequence of limbs, least significant first, each in
\* 0..Base-1, with no leading (last) zero limb; <<>> is zero.
Base == 32768
LimbBits == 15

RECURSIVE Pow2(_)
Pow2(k) == IF k = 0 THEN 1 ELSE 2 * Pow2(k - 1)

RECURSIVE BStrip(_)
BStrip(x) ==
  IF x = <<>> THEN <<>>
  ELSE IF x[Len(x)] = 0 THEN BStrip(SubSeq(x, 1, Len(x) - 1)) ELSE x

RECURSIVE BFromInt(_)
BFromInt(n) == IF n = 0 THEN <<>> ELSE <<n % Base>> \o BFromInt(n \div Base)

BLimb(x, i) == IF i <= Len(x) THEN x[i] ELSE 0

RECURSIVE BAddC(_, _, _, _)
BAddC(x, y, i, carry) ==
  IF i > Len(x) /\ i > Len(y)
  THEN (IF carry = 0 THEN <<>> ELSE <<carry>>)
  ELSE LET v == BLimb(x, i) + BLimb(y, i) + carry
       IN  <<v % Base>> \o BAddC(x, y, i + 1, v \div Base)

BAdd(x, y) == BAddC(x, y, 1, 0)

\* x - y for x >= y.
RECURSIVE BSubC(_, _, _, _)
BSubC(x, y, i, borrow) ==
  IF i > Len(x) THEN <<>>
  ELSE LET v == BLimb(x, i) - BLimb(y, i) - borrow
       IN  IF v < 0 THEN <<v + Base>> \o BSubC(x, y, i + 1, 1)
           ELSE <<v>> \o BSubC(x, y, i + 1, 0)

BSub(x, y) == BStrip(BSubC(x, y, 1, 0))

\* -1, 0 or 1 as x <, =, > y.
RECURSIVE BCmpAt(_, _, _)
BCmpAt(x, y, i) ==
  IF i = 0 THEN 0
  ELSE IF x[i] < y[i] THEN -1
  ELSE IF x[i] > y[i] THEN 1
  ELSE BCmpAt(x, y, i - 1)

BCmp(x, y) ==
  IF Len(x) < Len(y) THEN -1
  ELSE IF Len(x) > Len(y) THEN 1
  ELSE BCmpAt(x, y, Len(x))

\* x * d for a limb-sized d.
RECURSIVE BMulSmallC(_, _, _, _)
BMulSmallC(x, d, i, carry) ==
  IF i > Len(x)
  THEN (IF carry = 0 THEN <<>> ELSE <<carry>>)
  ELSE LET v == x[i] * d + carry
       IN  <<v % Base>> \o BMulSmallC(x, d, i + 1, v \div Base)

BMulSmall(x, d) == IF d = 0 THEN <<>> ELSE BMulSmallC(x, d, 1, 0)

\* x * Base^n
BShiftLimbs(x, n) == IF x = <<>> THEN <<>> ELSE [i \in 1..n |-> 0] \o x

RECURSIVE BMulAt(_, _, _)
BMulAt(x, y, j) ==
  IF j > Len(y) THEN <<>>
  ELSE BAdd(BShiftLimbs(BMulSmall(x, y[j]), j - 1), BMulAt(x, y, j + 1))

BMul(x, y) == BMulAt(x, y, 1)

\* x * 2^k
BShl(x, k) == BShiftLimbs(BMulSmall(x, Pow2(k % LimbBits)), k \div LimbBits)

\* floor(x / d) for a limb-sized d > 0, from the most significant limb down.
RECURSIVE BDivSmallC(_, _, _, _)
BDivSmallC(x, d, i, rem) ==
  IF i = 0 THEN <<>>
  ELSE LET v == rem * Base + x[i]
       IN  BDivSmallC(x, d, i - 1, v % d) \o <<v \div d>>

BDivSmall(x, d) == BStrip(BDivSmallC(x, d, Len(x), 0))

\* floor(x / 2^k)
BShr(x, k) ==
  LET n == k \div LimbBits
  IN  IF n >= Len(x) THEN <<>>
      ELSE BDivSmall(SubSeq(x, n + 1, Len(x)), Pow2(k % LimbBits))

RECURSIVE IntBits(_)
IntBits(n) == IF n = 0 THEN 0 ELSE 1 + IntBits(n \div 2)

\* Number of bits of x (0 for zero).
BLen(x) == IF x = <<>> THEN 0 ELSE (Len(x) - 1) * LimbBits + IntBits(x[Len(x)])

BOdd(x) == x # <<>> /\ x[1] % 2 = 1

\* The largest d in 0..Base-1 with d * y <= r, for y > 0 and r < Base * y:
\* the bits of d from bit b down.
RECURSIVE BDigitAt(_, _, _, _)
BDigitAt(r, y, b, d) ==
  IF b < 0 THEN d
  ELSE IF BCmp(BMulSmall(y, d + Pow2(b)), r) <= 0
       THEN BDigitAt(r, y, b - 1, d + Pow2(b))
       ELSE BDigitAt(r, y, b - 1, d)

\* <<floor(x / y), x mod y>> for y > 0, by long division from limb i down;
\* q holds the quotient limbs found so far, r the running remainder.
RECURSIVE BDivModAt(_, _, _, _, _)
BDivModAt(x, y, i, q, r) ==
  IF i = 0 THEN <<BStrip(q), r>>
  ELSE LET r2 == BStrip(<<x[i]>> \o r)
           d  == BDigitAt(r2, y, LimbBits - 1, 0)
       IN  BDivModAt(x, y, i - 1, <<d>> \o q, BSub(r2, BMulSmall(y, d)))

BDivMod(x, y) == BDivModAt(x, y, Len(x), <<>>, <<>>)

\* floor(sqrt(x)) by Newton's iteration from r >= floor(sqrt(x)).
RECURSIVE BSqrtFrom(_, _)
BSqrtFrom(x, r) ==
  LET n == BShr(BAdd(r, BDivMod(x, r)[1]), 1)
  IN  IF BCmp(n, r) < 0 THEN BSqrtFrom(x, n) ELSE r

BSqrt(x) == IF x = <<>> THEN <<>> ELSE BSqrtFrom(x, BShl(<<1>>, (BLen(x) + 1) \div 2))

\* ------------------------------------------------------- binary64 arithmetic
\* A float is [s, m, e] of value s * m * 2^e with s in {1, -1} and m a natural
\* of exactly Prec bits; zero is [s |-> 1, m |-> <<>>, e |-> 0].  Exponent
\* range and subnormals are not modelled (no value here comes near them).
Prec == 53

FZero == [s |-> 1, m |-> <<>>, e |-> 0]

\* sgn * (M + f) * 2^E rounded to nearest, ties to even, where 0 <= f < 1 and
\* f > 0 iff sticky.  A sticky M has at least Prec + 2 bits.
FRound(sgn, M, E, sticky) ==
  LET L == BLen(M)
  IN  IF M = <<>> THEN FZero
      ELSE IF L <= Prec
      THEN [s |-> sgn, m |-> BShl(M, Prec - L), e |-> E - (Prec - L)]
      ELSE LET sh   == L - Prec
               q    == BShr(M, sh)
               r    == BSub(M, BShl(q, sh))
               c    == BCmp(r, BShl(<<1>>, sh - 1))
               up   == c > 0 \/ (c = 0 /\ (sticky \/ BOdd(q)))
               q2   == IF up THEN BAdd(q, <<1>>) ELSE q
           IN  IF BLen(q2) > Prec
               THEN [s |-> sgn, m |-> BShr(q2, 1), e |-> E + sh + 1]
               ELSE [s |-> sgn, m |-> q2, e |-> E + sh]

\* float(n) of an integer n.
FFromInt(n) ==
  IF n < 0 THEN FRound(-1, BFromInt(-n), 0, FALSE)
  ELSE FRound(1, BFromInt(n), 0, FALSE)

FMul(x, y) ==
  IF x.m = <<>> \/ y.m = <<>> THEN FZero
  ELSE FRound(x.s * y.s, BMul(x.m, y.m), x.e + y.e, FALSE)

\* x / y for y # 0.
FDiv(x, y) ==
  IF x.m = <<>> THEN FZero
  ELSE LET qr == BDivMod(BShl(x.m, Prec + 2), y.m)
       IN  FRound(x.s * y.s, qr[1], x.e - y.e - (Prec + 2), qr[2] # <<>>)

FNeg(x) == IF x.m = <<>> THEN x ELSE [x EXCEPT !.s = -x.s]

FAdd(x, y) ==
  IF x.m = <<>> THEN y
  ELSE IF y.m = <<>> THEN x
  ELSE LET emin == IF x.e < y.e THEN x.e ELSE y.e
           X    == BShl(x.m, x.e - emin)
           Y    == BShl(y.m, y.e - emin)
           c    == BCmp(X, Y)
       IN  IF x.s = y.s THEN FRound(x.s, BAdd(X, Y), emin, FALSE)
           ELSE IF c = 0 THEN FZero
           ELSE IF c > 0 THEN FRound(x.s, BSub(X, Y), emin, FALSE)
           ELSE FRound(y.s, BSub(Y, X), emin, FALSE)

FSub(x, y) == FAdd(x, FNeg(y))

\* sqrt(M * 2^E), correctly rounded.
FSqrtNat(M, E) ==
  IF M = <<>> THEN FZero
  ELSE LET need == 2 * (Prec + 2) - BLen(M)
           k0   == IF need > 0 THEN need ELSE 0
           k    == IF (E - k0) % 2 = 0 THEN k0 ELSE k0 + 1
           X    == BShl(M, k)
           R    == BSqrt(X)
       IN  FRound(1, R, (E - k) \div 2, BCmp(BMul(R, R), X) # 0)

\* x < y for x, y >= 0.
FLess(x, y) ==
  IF y.m = <<>> THEN FALSE
  ELSE IF x.m = <<>> THEN TRUE
  ELSE IF x.e # y.e THEN x.e < y.e
  ELSE BCmp(x.m, y.m) < 0

\* abs(z) of a complex z with float parts: hypot(z.real, z.imag).
FHypot(x, y) ==
  IF x.m = <<>> /\ y.m = <<>> THEN FZero
  ELSE IF y.m = <<>> THEN [x EXCEPT !.s = 1]
  ELSE IF x.m = <<>> THEN [y EXCEPT !.s = 1]
  ELSE LET emin == IF x.e < y.e THEN x.e ELSE y.e
           X    == BShl(BMul(x.m, x.m), 2 * (x.e - emin))
           Y    == BShl(BMul(y.m, y.m), 2 * (y.e - emin))
       IN  FSqrtNat(BAdd(X, Y), 2 * emin)

\* sqrt(n) for each |v|^2 of a difference v of two input points.
MaxNorm2 ==
  IF MaxCoord > MaxSegCoord THEN 2 * MaxCoord * MaxCoord ELSE 2 * MaxSegCoord * MaxSegCoord
SqrtTable == [n \in 0..MaxNorm2 |-> FSqrtNat(BFromInt(n), 0)]

\* abs(v) of a complex v with integer parts.
FAbsInt(v) == SqrtTable[Norm2(v)]

\* ------------------------------------------------------------ the predicates
\* ccw with the test for c--a--b taken as dot <= 0.
ccw_DotLeq(a, b, c) ==
  LET b1 == VSub(b, a)
      c1 == VSub(c, a)
  IN  IF cross(b1, c1) > 0 THEN 1
      ELSE IF cross(b1, c1) < 0 THEN -1
      ELSE IF dot(b1, c1) <= 0 THEN 2
      ELSE IF FLess(FAbsInt(b1), FAbsInt(c1)) THEN -2
      ELSE 0

\* ccw(a, b, c): +1, -1, +2, -2 or 0.
ccw(a, b, c) ==
  LET b1 == VSub(b, a)
      c1 == VSub(c, a)
  IN  IF cross(b1, c1) > 0 THEN 1
      ELSE IF cross(b1, c1) < 0 THEN -1
      ELSE IF dot(b1, c1) < 0 THEN 2
      ELSE IF FLess(FAbsInt(b1), FAbsInt(c1)) THEN -2
      ELSE 0

\* projection(s, p): a complex with float parts, <<real, imag>>.
projection(s, p) ==
  LET d  == VSub(s[1], s[2])
      h  == FAbsInt(d)
      tq == FDiv(FFromInt(dot(VSub(p, s[1]), d)), FMul(h, h))
  IN  <<FAdd(FFromInt(s[1][1]), FMul(tq, FFromInt(d[1]))),
        FAdd(FFromInt(s[1][2]), FMul(tq, FFromInt(d[2])))>>

\* dist_lp(s, p) = abs(p - projection(s, p))
dist_lp(s, p) ==
  LET q == projection(s, p)
  IN  FHypot(FSub(FFromInt(p[1]), q[1]), FSub(FFromInt(p[2]), q[2]))

\* Python's min(x, y): the first of the smallest.
FMin(x, y) == IF FLess(y, x) THEN y ELSE x

dist_sp(s, p) ==
  IF dot(VSub(p, s[1]), VSub(s[2], s[1])) >= 0 /\ dot(VSub(p, s[2]), VSub(s[1], s[2])) >= 0
  THEN dist_lp(s, p)
  ELSE FMin(FAbsInt(VSub(p, s[1])), FAbsInt(VSub(p, s[2])))

\* does_intersect_ss without its second test (ccw = 0).
does_intersect_ss_CrossingOnly(s, t) ==
  ccw(s[1], s[2], t[1]) * ccw(s[1], s[2], t[2]) = -1
  /\ ccw(t[1], t[2], s[1]) * ccw(t[1], t[2], s[2]) = -1

does_intersect_ss(s, t) ==
  IF ccw(s[1], s[2], t[1]) * ccw(s[1], s[2], t[2]) = -1
     /\ ccw(t[1], t[2], s[1]) * ccw(t[1], t[2], s[2]) = -1
  THEN TRUE
  ELSE IF ccw(s[1], s[2], t[1]) = 0 \/ ccw(s[1], s[2], t[2]) = 0
          \/ ccw(t[1], t[2], s[1]) = 0 \/ ccw(t[1], t[2], s[2]) = 0
  THEN TRUE
  ELSE FALSE

\* -------------------------------------------------------------------- state
VARIABLES
  pc,     \* where the caller is: "args" before the call, then the call made
  in_g,   \* the list of points g (convex_hull rebinds it to the sorted list)
  in_s,   \* the pair of points passed as s (or as a, b)
  in_t,   \* the pair of points passed as t (its first point: c)
  in_p,   \* the point passed as p
  loc,    \* convex_hull's locals
  ret,    \* the value returned
  prev    \* the hull returned by the call before this one ("none": no such call)

vars == <<pc, in_g, in_s, in_t, in_p, loc, ret, prev>>

NoLoc == [n |-> 0, ch |-> <<>>, k |-> 0, t |-> 0, i |-> 0]
Origin == <<0, 0>>
Segments == {sg \in Points \X Points : sg[1] # sg[2]}

\* ---------------------------------------------- ccw and does_intersect_ss
InitPred ==
  /\ pc = "args"
  /\ in_s \in SegPoints \X SegPoints
  /\ in_t \in SegPoints \X SegPoints
  /\ in_g = <<>> /\ in_p = Origin /\ loc = NoLoc /\ ret = "none" /\ prev = "none"

\* CGL_1_C: res = ccw(p1, p2, p3)
CallCcw ==
  /\ pc = "args"
  /\ ret' = ccw(in_s[1], in_s[2], in_t[1])
  /\ pc' = "ccw"
  /\ UNCHANGED <<in_g, in_s, in_t, in_p, loc, prev>>

CallDoesIntersect ==
  /\ pc = "args"
  /\ ret' = does_intersect_ss(in_s, in_t)
  /\ pc' = "does_intersect_ss"
  /\ UNCHANGED <<in_g, in_s, in_t, in_p, loc, prev>>

NextPred == CallCcw \/ CallDoesIntersect

SpecPred == InitPred /\ [][NextPred]_vars

\* ------------------------------------------------------------------ dist_sp
InitDist ==
  /\ pc = "args"
  /\ in_s \in Segments
  /\ in_p \in Points
  /\ in_g = <<>> /\ in_t = <<Origin, Origin>> /\ loc = NoLoc /\ ret = "none" /\ prev = "none"

CallDistSp ==
  /\ pc = "args"
  /\ ret' = dist_sp(in_s, in_p)
  /\ pc' = "dist_sp"
  /\ UNCHANGED <<in_g, in_s, in_t, in_p, loc, prev>>

NextDist == CallDistSp

SpecDist == InitDist /\ [][NextDist]_vars

\* -------------------------------------------------------------- convex_hull
\* The sort key (p.real, p.imag): a <= b as Python compares the tuples.
KeyLeq(a, b) == a[1] < b[1] \/ (a[1] = b[1] /\ a[2] <= b[2])

\* x inserted into the sorted list l after every element whose key is <= x's.
RECURSIVE SortedInsert(_, _)
SortedInsert(l, x) ==
  IF l = <<>> THEN <<x>>
  ELSE IF KeyLeq(l[1], x) THEN <<l[1]>> \o SortedInsert(Tail(l), x)
  ELSE <<x>> \o l

\* sorted(g, key=lambda p: (p.real, p.imag)): a stable sort.
RECURSIVE sorted(_)
sorted(l) ==
  IF l = <<>> THEN <<>>
  ELSE SortedInsert(sorted(SubSeq(l, 1, Len(l) - 1)), l[Len(l)])

\* l[:e] of a Python list l (a TLA+ sequence).
PySliceTo(l, e) ==
  LET e1 == IF e < 0 THEN e + Len(l) ELSE e
      e2 == IF e1 < 0 THEN 0 ELSE IF e1 > Len(l) THEN Len(l) ELSE e1
  IN  SubSeq(l, 1, e2)

\* The list ch as a sequence: slot j of ch (j in 0..2n-1) is element j + 1.
ChList(ch, n) == [j \in 1..(2 * n) |-> IF (j - 1) \in DOMAIN ch THEN ch[j - 1] ELSE "None"]

InitHull ==
  /\ pc = "args"
  /\ \E m \in 0..MaxHullN : in_g \in [1..m -> Points]
  /\ in_s = <<Origin, Origin>> /\ in_t = <<Origin, Origin>> /\ in_p = Origin
  /\ loc = NoLoc /\ ret = "none" /\ prev = "none"

\* HullStart with a buffer of n slots: ch = [None] * n
HullStart_ShortBuffer ==
  /\ pc = "args"
  /\ in_g' = sorted(in_g)
  /\ loc' = [n  |-> Len(in_g),
             ch |-> [j \in 0..(Len(in_g) - 1) |-> "None"],
             k  |-> 0,
             t  |-> 0,
             i  |-> 0]
  /\ pc' = "lower"
  /\ UNCHANGED <<in_s, in_t, in_p, ret, prev>>

\* n = len(g); g = sorted(g, ...); k = 0; ch = [None] * (2 * n); i = 0
HullStart ==
  /\ pc = "args"
  /\ in_g' = sorted(in_g)
  /\ loc' = [n  |-> Len(in_g),
             ch |-> [j \in 0..(2 * Len(in_g) - 1) |-> "None"],
             k  |-> 0,
             t  |-> 0,
             i  |-> 0]
  /\ pc' = "lower"
  /\ UNCHANGED <<in_s, in_t, in_p, ret, prev>>

\* The lower loop's test popping on every turn that is not counter-clockwise.
LowerTest_PopCollinear ==
  loc.k >= 2 /\ ccw(loc.ch[loc.k - 2], loc.ch[loc.k - 1], in_g[loc.i + 1]) # 1

\* The while condition of the lower loop.
LowerTest == loc.k >= 2 /\ ccw(loc.ch[loc.k - 2], loc.ch[loc.k - 1], in_g[loc.i + 1]) = -1

\* while ...: k -= 1
LowerPop ==
  /\ pc = "lower" /\ loc.i < loc.n
  /\ LowerTest
  /\ loc' = [loc EXCEPT !.k = loc.k - 1]
  /\ UNCHANGED <<pc, in_g, in_s, in_t, in_p, ret, prev>>

\* ch[k] = g[i]; k += 1; next i
LowerPush ==
  /\ pc = "lower" /\ loc.i < loc.n
  /\ ~LowerTest
  /\ loc' = [loc EXCEPT !.ch[loc.k] = in_g[loc.i + 1], !.k = loc.k + 1, !.i = loc.i + 1]
  /\ UNCHANGED <<pc, in_g, in_s, in_t, in_p, ret, prev>>

\* t = k + 1; i = n - 2
LowerEnd ==
  /\ pc = "lower" /\ loc.i = loc.n
  /\ loc' = [loc EXCEPT !.t = loc.k + 1, !.i = loc.n - 2]
  /\ pc' = "upper"
  /\ UNCHANGED <<in_g, in_s, in_t, in_p, ret, prev>>

\* The while condition of the upper loop.
UpperTest == loc.k >= loc.t /\ ccw(loc.ch[loc.k - 2], loc.ch[loc.k - 1], in_g[loc.i + 1]) = -1

UpperPop ==
  /\ pc = "upper" /\ loc.i >= 0
  /\ UpperTest
  /\ loc' = [loc EXCEPT !.k = loc.k - 1]
  /\ UNCHANGED <<pc, in_g, in_s, in_t, in_p, ret, prev>>

UpperPush ==
  /\ pc = "upper" /\ loc.i >= 0
  /\ ~UpperTest
  /\ loc' = [loc EXCEPT !.ch[loc.k] = in_g[loc.i + 1], !.k = loc.k + 1, !.i = loc.i - 1]
  /\ UNCHANGED <<pc, in_g, in_s, in_t, in_p, ret, prev>>

\* HullReturn with the slice one short: ch = ch[:k-2]
HullReturn_SliceShort ==
  /\ pc = "upper" /\ loc.i < 0
  /\ ret' = PySliceTo(ChList(loc.ch, loc.n), loc.k - 2)
  /\ loc' = NoLoc
  /\ pc' = "hull"
  /\ UNCHANGED <<in_g, in_s, in_t, in_p, prev>>

\* ch = ch[:k-1]; return ch
HullReturn ==
  /\ pc = "upper" /\ loc.i < 0
  /\ ret' = PySliceTo(ChList(loc.ch, loc.n), loc.k - 1)
  /\ loc' = NoLoc
  /\ pc' = "hull"
  /\ UNCHANGED <<in_g, in_s, in_t, in_p, prev>>

\* convex_hull(convex_hull(points)): the hull returned is passed back in.
HullAgain ==
  /\ pc = "hull" /\ prev = "none"
  /\ prev' = ret
  /\ in_g' = ret
  /\ ret' = "none"
  /\ pc' = "args"
  /\ UNCHANGED <<in_s, in_t, in_p, loc>>

NextHull ==
  \/ HullStart \/ LowerPop \/ LowerPush \/ LowerEnd
  \/ UpperPop \/ UpperPush \/ HullReturn \/ HullAgain

SpecHull == InitHull /\ [][NextHull]_vars

\* ----------------------------------------------------------------- contains
\* p lies on the closed segment ab (a test on the coordinates alone).
OnEdge(a, b, p) ==
  /\ cross(VSub(b, a), VSub(p, a)) = 0
  /\ ((a[1] <= p[1] /\ p[1] <= b[1]) \/ (b[1] <= p[1] /\ p[1] <= a[1]))
  /\ ((a[2] <= p[2] /\ p[2] <= b[2]) \/ (b[2] <= p[2] /\ p[2] <= a[2]))

\* The closed segments ab and cd have a point in common.
EdgesMeet(a, b, c, d) ==
  \/ /\ cross(VSub(b, a), VSub(c, a)) * cross(VSub(b, a), VSub(d, a)) < 0
     /\ cross(VSub(d, c), VSub(a, c)) * cross(VSub(d, c), VSub(b, c)) < 0
  \/ OnEdge(a, b, c) \/ OnEdge(a, b, d) \/ OnEdge(c, d, a) \/ OnEdge(c, d, b)

\* Vertex i of the polygon l, indices taken cyclically from 1.
Vtx(l, i) == l[((i - 1) % Len(l)) + 1]

\* "g: A simple polygon": at least 3 distinct vertices; two edges that follow
\* one another share their common vertex only, two others share nothing.
IsSimple(l) ==
  LET m == Len(l)
  IN  /\ m >= 3
      /\ \A i, j \in 1..m : i # j => l[i] # l[j]
      /\ \A i \in 1..m :
           /\ ~OnEdge(Vtx(l, i), Vtx(l, i + 1), Vtx(l, i + 2))
           /\ ~OnEdge(Vtx(l, i + 1), Vtx(l, i + 2), Vtx(l, i))
      /\ \A i, j \in 1..m :
           (i < j /\ j # i + 1 /\ ~(i = 1 /\ j = m)) =>
             ~EdgesMeet(Vtx(l, i), Vtx(l, i + 1), Vtx(l, j), Vtx(l, j + 1))

\* The for loop of contains from edge i on (i counts from 1), res so far.
RECURSIVE containsFrom(_, _, _, _)
containsFrom(g, p, i, res) ==
  IF i > Len(g) THEN res
  ELSE LET a0 == VSub(g[i], p)
           b0 == VSub(g[(i % Len(g)) + 1], p)
           a  == IF a0[2] > b0[2] THEN b0 ELSE a0
           b  == IF a0[2] > b0[2] THEN a0 ELSE b0
           r2 == IF a[2] <= 0 /\ 0 < b[2] /\ cross(a, b) < 0 THEN -res ELSE res
       IN  IF cross(a, b) = 0 /\ dot(a, b) <= 0 THEN 0
           ELSE containsFrom(g, p, i + 1, r2)

\* contains with the straddle test taken as a.imag < 0 and 0 <= b.imag.
contains_StraddleShifted(g, p) ==
  LET F[i \in 1..(Len(g) + 1), res \in {-1, 1}] ==
        IF i > Len(g) THEN res
        ELSE LET a0 == VSub(g[i], p)
                 b0 == VSub(g[(i % Len(g)) + 1], p)
                 a  == IF a0[2] > b0[2] THEN b0 ELSE a0
                 b  == IF a0[2] > b0[2] THEN a0 ELSE b0
                 r2 == IF a[2] < 0 /\ 0 < b[2] /\ cross(a, b) < 0 THEN -res ELSE res
             IN  IF cross(a, b) = 0 /\ dot(a, b) <= 0 THEN 0 ELSE F[i + 1, r2]
  IN  F[1, -1]

contains(g, p) == containsFrom(g, p, 1, -1)

InitContains ==
  /\ pc = "args"
  /\ \E m \in 3..MaxPolyN : in_g \in [1..m -> PolyPoints]
  /\ IsSimple(in_g)
  /\ in_p \in PolyPoints
  /\ in_s = <<Origin, Origin>> /\ in_t = <<Origin, Origin>>
  /\ loc = NoLoc /\ ret = "none" /\ prev = "none"

\* CGL_3_C: res = contains(g, p)
CallContains ==
  /\ pc = "args"
  /\ ret' = contains(in_g, in_p)
  /\ pc' = "contains"
  /\ UNCHANGED <<in_g, in_s, in_t, in_p, loc, prev>>

NextContains == CallContains

SpecContains == InitContains /\ [][NextContains]_vars

\* --------------------------------------------------------------- convex_cut
\* Exact numbers: a rational is <<numerator, denominator>> in lowest terms with
\* a positive denominator; a point with such coordinates is <<x, y>>.
RECURSIVE Gcd(_, _)
Gcd(x, y) == IF y = 0 THEN x ELSE Gcd(y, x % y)

QNorm(n, d) ==
  LET sn == IF d < 0 THEN -n ELSE n
      sd == IF d < 0 THEN -d ELSE d
      k  == Gcd(IF sn < 0 THEN -sn ELSE sn, sd)
  IN  <<sn \div k, sd \div k>>

QInt(n) == <<n, 1>>
QAdd(x, y) == QNorm(x[1] * y[2] + y[1] * x[2], x[2] * y[2])
QSub(x, y) == QNorm(x[1] * y[2] - y[1] * x[2], x[2] * y[2])
QMul(x, y) == QNorm(x[1] * y[1], x[2] * y[2])
QDiv(x, y) == QNorm(x[1] * y[2], x[2] * y[1])
QAbs(x) == <<IF x[1] < 0 THEN -x[1] ELSE x[1], x[2]>>
QPoint(v) == <<QInt(v[1]), QInt(v[2])>>
QPoly(l) == [j \in 1..Len(l) |-> QPoint(l[j])]

\* cross of two points with exact coordinates
QCross(a, b) == QSub(QMul(a[1], b[2]), QMul(a[2], b[1]))

\* intersection_ll with cross(sv, t[0] - s[0]) as the numerator.
intersection_ll_WrongNumerator(s, t) ==
  LET sv == VSub(s[2], s[1])
      tv == VSub(t[2], t[1])
      r  == QDiv(QInt(cross(sv, VSub(t[1], s[1]))), QInt(cross(tv, sv)))
  IN  <<QAdd(QInt(s[1][1]), QMul(QInt(sv[1]), r)),
        QAdd(QInt(s[1][2]), QMul(QInt(sv[2]), r))>>

\* s[0] + sv * cross(tv, t[0] - s[0]) / cross(tv, sv), the lines not parallel
intersection_ll(s, t) ==
  LET sv == VSub(s[2], s[1])
      tv == VSub(t[2], t[1])
      nm == cross(tv, VSub(t[1], s[1]))
      dn == cross(tv, sv)
  IN  <<QAdd(QInt(s[1][1]), QDiv(QInt(sv[1] * nm), QInt(dn))),
        QAdd(QInt(s[1][2]), QDiv(QInt(sv[2] * nm), QInt(dn)))>>

\* the sum of cross(g[i], g[(i + 1) % n]) from index i on (i counts from 1)
RECURSIVE areaSum(_, _)
areaSum(g, i) ==
  IF i > Len(g) THEN QInt(0)
  ELSE QAdd(QCross(g[i], g[(i % Len(g)) + 1]), areaSum(g, i + 1))

area(g) == QDiv(QAbs(areaSum(g, 1)), QInt(2))

\* convex_cut keeping a vertex only when ccw is 1.
convex_cut_DropOnLine(g, s) ==
  LET F[i \in 1..(Len(g) + 1)] ==
        IF i > Len(g) THEN <<>>
        ELSE LET a  == g[i]
                 b  == g[(i % Len(g)) + 1]
                 ca == ccw(s[1], s[2], a)
                 cb == ccw(s[1], s[2], b)
             IN  (IF ca = 1 THEN <<QPoint(a)>> ELSE <<>>)
                 \o (IF ca * cb = -1 THEN <<intersection_ll(<<a, b>>, s)>> ELSE <<>>)
                 \o F[i + 1]
  IN  F[1]

\* The for loop of convex_cut from edge i on: what it appends to res.
RECURSIVE convex_cutFrom(_, _, _)
convex_cutFrom(g, s, i) ==
  IF i > Len(g) THEN <<>>
  ELSE LET a  == g[i]
           b  == g[(i % Len(g)) + 1]
           ca == ccw(s[1], s[2], a)
           cb == ccw(s[1], s[2], b)
       IN  (IF ca # -1 THEN <<QPoint(a)>> ELSE <<>>)
           \o (IF ca * cb = -1 THEN <<intersection_ll(<<a, b>>, s)>> ELSE <<>>)
           \o convex_cutFrom(g, s, i + 1)

convex_cut(g, s) == convex_cutFrom(g, s, 1)

\* "g: A convex polygon. The order of vertices must be counter-clockwise":
\* simple, and every vertex on or to the left of every directed edge.
IsConvexCcw(l) ==
  /\ IsSimple(l)
  /\ \A i, j \in 1..Len(l) :
       cross(VSub(Vtx(l, i + 1), Vtx(l, i)), VSub(l[j], Vtx(l, i))) >= 0

InitCut ==
  /\ pc = "args"
  /\ \E m \in 3..MaxCutN : in_g \in [1..m -> Points]
  /\ IsConvexCcw(in_g)
  /\ in_s \in Segments
  /\ in_t = <<Origin, Origin>> /\ in_p = Origin
  /\ loc = NoLoc /\ ret = "none" /\ prev = "none"

\* CGL_4_C: the inner call of res = area(convex_cut(g, s))
CallConvexCut ==
  /\ pc = "args"
  /\ ret' = convex_cut(in_g, in_s)
  /\ pc' = "convex_cut"
  /\ UNCHANGED <<in_g, in_s, in_t, in_p, loc, prev>>

\* CGL_4_C: the outer call of res = area(convex_cut(g, s))
CallArea ==
  /\ pc = "convex_cut"
  /\ ret' = area(ret)
  /\ pc' = "area"
  /\ UNCHANGED <<in_g, in_s, in_t, in_p, loc, prev>>

\* CGL_4_C: the next query on the same polygon, here the same line reversed
NextQuery ==
  /\ pc = "area" /\ prev = "none"
  /\ prev' = ret
  /\ in_s' = <<in_s[2], in_s[1]>>
  /\ ret' = "none"
  /\ pc' = "args"
  /\ UNCHANGED <<in_g, in_t, in_p, loc>>

NextCut == CallConvexCut \/ CallArea \/ NextQuery

SpecCut == InitCut /\ [][NextCut]_vars

\* ------------------------------------------------- what the claims refer to
Between(x, y, z) == (x <= z /\ z <= y) \/ (y <= z /\ z <= x)

Collinear(a, b, c) == cross(VSub(b, a), VSub(c, a)) = 0

\* c lies on the closed segment from a to b.
OnClosedSegment(a, b, c) ==
  Collinear(a, b, c) /\ Between(a[1], b[1], c[1]) /\ Between(a[2], b[2], c[2])

\* c lies on the line ab strictly behind a: a is between c and b, c # a.
StrictlyBehind(a, b, c) == Collinear(a, b, c) /\ c # a /\ OnClosedSegment(c, b, a)

\* c lies on the line ab strictly beyond b: b is between a and c, c # b.
StrictlyBeyond(a, b, c) == Collinear(a, b, c) /\ c # b /\ OnClosedSegment(a, c, b)

Abs(x) == IF x < 0 THEN -x ELSE x

\* The closed segments s and t have a point in common.  Two lines that are
\* not parallel meet at s[1] + (i/K) sv = t[1] + (j/K) tv with K = |cross(sv, tv)|
\* and i, j integers; the point is on both segments iff i and j are in 0..K.
SegmentsShareAPoint(s, t) ==
  LET sv == VSub(s[2], s[1])
      tv == VSub(t[2], t[1])
      K  == Abs(cross(sv, tv))
  IN  IF K # 0
      THEN \E i \in 0..K, j \in 0..K :
             /\ K * s[1][1] + i * sv[1] = K * t[1][1] + j * tv[1]
             /\ K * s[1][2] + i * sv[2] = K * t[1][2] + j * tv[2]
      ELSE \/ OnClosedSegment(s[1], s[2], t[1]) \/ OnClosedSegment(s[1], s[2], t[2])
           \/ OnClosedSegment(t[1], t[2], s[1]) \/ OnClosedSegment(t[1], t[2], s[2])

\* ------------------------------------------------------------------- claims
\* C1: ccw(a, b, c) is +1 iff cross(b-a, c-a) > 0, -1 iff it is < 0, and on a
\* zero cross product +2 iff dot(b-a, c-a) < 0, otherwise -2 iff |b-a| < |c-a|,
\* otherwise 0; so for a # b it is 0 exactly when c is on the closed segment
\* ab, +2 exactly when c is strictly behind a, -2 exactly when strictly beyond b.
C1_CcwContract ==
  pc = "ccw" =>
    LET a  == in_s[1]
        b  == in_s[2]
        c  == in_t[1]
        cr == cross(VSub(b, a), VSub(c, a))
        dt == dot(VSub(b, a), VSub(c, a))
        shorter == Norm2(VSub(b, a)) < Norm2(VSub(c, a))
    IN  /\ ret \in {1, -1, 2, -2, 0}
        /\ (ret = 1) <=> (cr > 0)
        /\ (ret = -1) <=> (cr < 0)
        /\ cr = 0 => /\ (ret = 2) <=> (dt < 0)
                     /\ (ret = -2) <=> (dt >= 0 /\ shorter)
                     /\ (ret = 0) <=> (dt >= 0 /\ ~shorter)
        /\ a # b => /\ (ret = 0) <=> OnClosedSegment(a, b, c)
                    /\ (ret = 2) <=> StrictlyBehind(a, b, c)
                    /\ (ret = -2) <=> StrictlyBeyond(a, b, c)

\* C1's case: a # b and c on the line ab beyond b, classified by the length test.
C1_Witness ==
  /\ pc = "ccw" /\ in_s[1] # in_s[2] /\ ret = -2
  /\ StrictlyBeyond(in_s[1], in_s[2], in_t[1])

\* C2: for segments with distinct endpoints does_intersect_ss(s, t) is True
\* iff the closed segments share a point, and False otherwise (so False for
\* collinear segments that are disjoint).
C2_IntersectIffSharePoint ==
  (pc = "does_intersect_ss" /\ in_s[1] # in_s[2] /\ in_t[1] # in_t[2]) =>
    /\ ret \in BOOLEAN
    /\ ret <=> SegmentsShareAPoint(in_s, in_t)

\* C2's case: two collinear segments that are disjoint, answered False.
C2_Witness ==
  /\ pc = "does_intersect_ss" /\ in_s[1] # in_s[2] /\ in_t[1] # in_t[2]
  /\ Collinear(in_s[1], in_s[2], in_t[1]) /\ Collinear(in_s[1], in_s[2], in_t[2])
  /\ ~SegmentsShareAPoint(in_s, in_t)
  /\ ret = FALSE

\* C8: dist_sp(s, p) == 0 iff p lies on the closed segment s, that is iff
\* ccw(s[0], s[1], p) == 0; for every other p the result is strictly positive.
C8_DistZeroIffOnSegment ==
  pc = "dist_sp" =>
    /\ (ret = FZero) <=> OnClosedSegment(in_s[1], in_s[2], in_p)
    /\ (ret = FZero) <=> (ccw(in_s[1], in_s[2], in_p) = 0)
    /\ ret # FZero => (ret.s = 1 /\ ret.m # <<>>)

Range(l) == {l[j] : j \in 1..Len(l)}

Distinct(l) == \A i, j \in 1..Len(l) : i # j => l[i] # l[j]

AllCollinear(l) == \A a, b, c \in Range(l) : Collinear(a, b, c)

Count(l, x) == Cardinality({j \in 1..Len(l) : l[j] = x})

\* q is on the boundary of the convex hull of S: some line through q and
\* another point of S has all of S on its left or on it.
OnHullBoundary(S, q) ==
  \E r \in S \ {q} : \A x \in S : cross(VSub(r, q), VSub(x, q)) >= 0

\* The point of S with the lowest x, then the lowest y.
Leftmost(S) ==
  CHOOSE q \in S : \A x \in S : q[1] < x[1] \/ (q[1] = x[1] /\ q[2] <= x[2])

\* Vertex i of the polygon h, indices taken cyclically from 1.
Cyc(h, i) == h[((i - 1) % Len(h)) + 1]

\* C4: for pairwise distinct points, not all collinear, convex_hull returns
\* input points forming a counter-clockwise convex polygon that starts at the
\* leftmost (then lowest) point: no clockwise turn at three cyclically
\* consecutive vertices, every input point on or left of every directed edge,
\* no interior point, every input point of the boundary exactly once.
C4_HullContract ==
  (pc = "hull" /\ Distinct(in_g) /\ ~AllCollinear(in_g)) =>
    LET S == Range(in_g)
    IN  /\ Len(ret) >= 3
        /\ Range(ret) \subseteq S
        /\ ret[1] = Leftmost(S)
        /\ \A i \in 1..Len(ret) :
             /\ ccw(Cyc(ret, i), Cyc(ret, i + 1), Cyc(ret, i + 2)) # -1
             /\ cross(VSub(Cyc(ret, i + 1), Cyc(ret, i)),
                      VSub(Cyc(ret, i + 2), Cyc(ret, i))) >= 0
             /\ \A q \in S :
                  cross(VSub(Cyc(ret, i + 1), Cyc(ret, i)), VSub(q, Cyc(ret, i))) >= 0
        /\ \A q \in S : Count(ret, q) = IF OnHullBoundary(S, q) THEN 1 ELSE 0

\* C4's case: four distinct points, one strictly inside the triangle of the others.
C4_Witness ==
  /\ pc = "hull" /\ Distinct(in_g) /\ ~AllCollinear(in_g)
  /\ Len(in_g) = 4 /\ Len(ret) = 3
  /\ \E q \in Range(in_g) : ~OnHullBoundary(Range(in_g), q)

\* C5: on a degenerate input (at most 2 distinct points, or all points
\* collinear, repeats included) convex_hull returns fewer than 3 vertices.
C5_DegenerateHullSmall ==
  (pc = "hull" /\ AllCollinear(in_g)) => Len(ret) < 3

\* C9: convex_hull(convex_hull(points)) has the same set of vertices as
\* convex_hull(points), for every list (collinear, repeated, short ones too).
C9_HullIdempotent ==
  (pc = "hull" /\ prev # "none") => Range(ret) = Range(prev)

\* C9's case: the hull of a hull that repeats a vertex (a collinear input).
C9_Witness ==
  /\ pc = "hull" /\ prev # "none"
  /\ Len(prev) >= 3 /\ ~Distinct(prev)
  /\ Range(ret) = Range(prev)

\* C10: in the two scan loops, k is in 0..2n-1 (a slot of the 2n-slot buffer)
\* whenever ch[k] is written; ccw is applied to ch[k-2], ch[k-1] only when
\* both have been written; in the upper loop k >= t-1, and the lower chain's
\* last (rightmost) point stays at ch[t-2].
C10_ScanInvariant ==
  LET inLower == pc = "lower" /\ loc.i < loc.n
      inUpper == pc = "upper" /\ loc.i >= 0
  IN  /\ (inLower \/ inUpper) =>
           /\ 0 <= loc.k /\ loc.k <= 2 * loc.n - 1
           /\ DOMAIN loc.ch = 0..(2 * loc.n - 1)
      /\ ((inLower /\ loc.k >= 2) \/ (inUpper /\ loc.k >= loc.t)) =>
           /\ loc.k - 2 >= 0
           /\ loc.ch[loc.k - 2] # "None"
           /\ loc.ch[loc.k - 1] # "None"
      /\ pc = "upper" =>
           /\ loc.k >= loc.t - 1
           /\ loc.n >= 1 => loc.ch[loc.t - 2] = in_g[loc.n]

\* C10's case: the upper loop has popped back to k = t-1, the lower chain's end.
C10_Witness ==
  /\ pc = "upper" /\ loc.i >= 0 /\ loc.i < loc.n - 2
  /\ loc.k = loc.t - 1

\* p lies on an edge of the polygon g, the closing edge included.
OnPolygonBoundary(g, p) ==
  \E i \in 1..Len(g) : OnClosedSegment(Cyc(g, i), Cyc(g, i + 1), p)

\* A direction no difference of two grid points is parallel to: the ray from
\* a grid point p along it passes through no other grid point.
RayDir == <<MaxPolyCoord + 1, 1>>

\* The ray from p along RayDir crosses the edge ab (a, b not on the ray).
RayCrosses(a, b, p) ==
  /\ cross(RayDir, VSub(a, p)) * cross(RayDir, VSub(b, p)) < 0
  /\ cross(VSub(p, a), VSub(b, a)) * cross(VSub(b, a), RayDir) > 0

\* p, not on the boundary, is inside g: the ray crosses the boundary an odd
\* number of times.
StrictlyInside(g, p) ==
  Cardinality({i \in 1..Len(g) : RayCrosses(Cyc(g, i), Cyc(g, i + 1), p)}) % 2 = 1

Reverse(l) == [j \in 1..Len(l) |-> l[Len(l) + 1 - j]]

Rotate(l, r) == [j \in 1..Len(l) |-> Cyc(l, j + r)]

\* C3: for a simple polygon g and a point p, contains(g, p) is 0 exactly when
\* p is on a closed edge of g (the closing edge included), otherwise +1 when p
\* is strictly inside and -1 when strictly outside; g reversed or cyclically
\* rotated gives the same result.
C3_ContainsContract ==
  pc = "contains" =>
    /\ ret \in {1, 0, -1}
    /\ (ret = 0) <=> OnPolygonBoundary(in_g, in_p)
    /\ ~OnPolygonBoundary(in_g, in_p) =>
         ret = IF StrictlyInside(in_g, in_p) THEN 1 ELSE -1
    /\ contains(Reverse(in_g), in_p) = ret
    /\ \A r \in 1..(Len(in_g) - 1) : contains(Rotate(in_g, r), in_p) = ret

\* C3's case: a polygon with a reflex vertex, a grid point strictly inside it
\* and a vertex straight to the right of that point.
C3_Witness ==
  /\ pc = "contains" /\ ret = 1 /\ Len(in_g) = 4
  /\ \E i \in 1..4 : in_g[i][2] = in_p[2] /\ in_g[i][1] > in_p[1]
  /\ \E i \in 1..4 :
       cross(VSub(Cyc(in_g, i + 1), Cyc(in_g, i)), VSub(Cyc(in_g, i + 2), Cyc(in_g, i + 1)))
       * cross(VSub(Cyc(in_g, i + 2), Cyc(in_g, i + 1)), VSub(Cyc(in_g, i + 3), Cyc(in_g, i + 2))) < 0

\* The side of the directed line s[1] -> s[2] that v is on: positive left,
\* negative right, 0 on the line.
Side(s, v) == cross(VSub(s[2], s[1]), VSub(v, s[1]))

\* C6: for a convex counter-clockwise polygon g and a line s, convex_cut(g, s)
\* is the empty list when every vertex of g is strictly to the right of s, and
\* is exactly the vertex sequence of g when no vertex of g is strictly to the
\* right of s.
C6_CutAllOrNothing ==
  pc = "convex_cut" =>
    /\ (\A j \in 1..Len(in_g) : Side(in_s, in_g[j]) < 0) => ret = <<>>
    /\ (\A j \in 1..Len(in_g) : Side(in_s, in_g[j]) >= 0) => ret = QPoly(in_g)

\* C6's case: the line runs along an edge of g with g on its left, and the
\* query before it, on the reverse line, left a polygon of area 0.
C6_Witness ==
  /\ pc = "convex_cut" /\ prev # "none" /\ prev = QInt(0)
  /\ ret = QPoly(in_g)
  /\ \E j \in 1..Len(in_g) :
       Side(in_s, in_g[j]) = 0 /\ Side(in_s, Cyc(in_g, j + 1)) = 0

\* C7: for a convex counter-clockwise polygon g and a line through a and b,
\* the area of convex_cut(g, (a, b)) plus the area of convex_cut(g, (b, a)) is
\* the area of g in exact arithmetic, also when the line passes through
\* vertices of g or runs along an edge.
C7_CutAreasAddUp ==
  (pc = "area" /\ prev # "none") => QAdd(prev, ret) = area(QPoly(in_g))

\* C7's case: the line passes through a vertex of g, crosses an edge between
\* two grid points, and both parts have a positive area.
C7_Witness ==
  /\ pc = "area" /\ prev # "none"
  /\ prev[1] > 0 /\ ret[1] > 0
  /\ \E j \in 1..Len(in_g) : Side(in_s, in_g[j]) = 0
  /\ \E j \in 1..Len(in_g) :
       /\ Side(in_s, in_g[j]) * Side(in_s, Cyc(in_g, j + 1)) < 0
       /\ intersection_ll(<<in_g[j], Cyc(in_g, j + 1)>>, in_s)[1][2] > 1

====
